---- MODULE Spec2Model ----
(***************************************************************************)
(* Model of the asynchronous evaluation pipeline of the AI screening       *)
(* service: job submission and polling (app/main.py), the Celery task      *)
(* wrapper (app/worker.py) and the three-stage LLM pipeline with retry     *)
(* and structured-output validation (app/services.py).                     *)
(*                                                                         *)
(* Numbers returned by the LLM are kept in tenths: 8 stands for 0.8 and    *)
(* 45 for 4.5.  A response text is a sequence of tokens.                   *)
(***************************************************************************)
EXTENDS Integers, Sequences, FiniteSets, TLC

\* ------------------------------------------------------------------------
\* Bounds and program constants
\* ------------------------------------------------------------------------

\* largest value of the `retries` argument explored for call_gemini_with_retry
MaxRetries == 4

\* default of the `retries` parameter, used by every call of the pipeline
DefaultRetries == 3

\* ids a caller can poll, and the ids the task queue hands out in Spec
JobIds == {"j1", "j2"}
SoloJobs == {"j1"}

\* ids under which one upload stores the CV and the project report
CvFileId == "cv1"
ReportFileId == "report1"
FileIds == {CvFileId, ReportFileId, "unknown"}

\* ------------------------------------------------------------------------
\* Response texts of the LLM service, as token sequences
\* ------------------------------------------------------------------------

Tok(t, k, ty, n, s) == [t |-> t, k |-> k, ty |-> ty, n |-> n, s |-> s]
LB == Tok("{", "", "", 0, "")
RB == Tok("}", "", "", 0, "")
Prose == Tok("prose", "", "", 0, "")
Scalar == Tok("scalar", "", "", 0, "")
Num(k, n) == Tok("field", k, "num", n, "")
Str(k, s) == Tok("field", k, "str", 0, s)

\* the longest response text parse_llm_json is run on
MaxTokens == 6

\* texts the fake LLM service may answer with
ResponseTexts ==
  { <<LB, Num("cv_match_rate", 8), Str("cv_feedback", "ok"), RB>>,
    <<Prose, LB, Num("cv_match_rate", 10), Str("cv_feedback", "ok"), RB>>,
    <<LB, Num("cv_match_rate", 70), Str("cv_feedback", "ok"), RB>>,
    <<LB, Str("cv_match_rate", "high"), Str("cv_feedback", "ok"), RB>>,
    <<LB, Num("project_score", 45), Str("project_feedback", "ok"), RB>>,
    <<LB, Num("project_score", 0), Str("project_feedback", "ok"), RB>>,
    <<LB, Str("overall_summary", "ok"), RB>>,
    <<LB, Str("overall_summary", ""), RB>>,
    <<Prose, Prose>>,
    <<Scalar>> }

\* ------------------------------------------------------------------------
\* parse_llm_json
\* ------------------------------------------------------------------------

\* positions of the opening and closing braces in a text
Opens(text) == {i \in 1..Len(text) : text[i].t = "{"}
Closes(text) == {i \in 1..Len(text) : text[i].t = "}"}

Min(S) == CHOOSE x \in S : \A y \in S : x <= y
Max(S) == CHOOSE x \in S : \A y \in S : x >= y

\* re.search(r"\{.*\}", llm_output, re.DOTALL): the leftmost '{' that has a
\* '}' after it, up to the last '}' of the text (the star is greedy)
ReSearch(text) ==
  LET starts == {i \in Opens(text) : \E c \in Closes(text) : c > i}
  IN IF starts = {} THEN [found |-> FALSE, from |-> 0, to |-> 0]
     ELSE [found |-> TRUE, from |-> Min(starts), to |-> Max(Closes(text))]

\* json_str: match.group(0), or the whole output when there is no match
JsonStr(text) ==
  LET m == ReSearch(text)
  IN IF m.found THEN SubSeq(text, m.from, m.to) ELSE text

\* json.loads: "object", "other" (valid JSON that is not an object) or "error"
JsonKind(str) ==
  IF Len(str) >= 2 /\ str[1].t = "{" /\ str[Len(str)].t = "}"
     /\ \A i \in 2..(Len(str) - 1) : str[i].t = "field"
  THEN "object"
  ELSE IF Len(str) = 1 /\ str[1].t = "scalar" THEN "other"
  ELSE "error"

\* the keys of the parsed object, and the value of a key (the last wins)
JsonKeys(str) == {str[i].k : i \in 2..(Len(str) - 1)}
JsonGet(str, key) == str[Max({i \in 2..(Len(str) - 1) : str[i].k = key})]

FloatField(str, key) == key \in JsonKeys(str) /\ JsonGet(str, key).ty = "num"
StrField(str, key) == key \in JsonKeys(str) /\ JsonGet(str, key).ty = "str"

\* the pydantic models of the three stage outputs
CvEvaluationOutput(str) ==
  IF FloatField(str, "cv_match_rate") /\ StrField(str, "cv_feedback")
  THEN <<[cv_match_rate |-> JsonGet(str, "cv_match_rate").n,
          cv_feedback |-> JsonGet(str, "cv_feedback").s]>>
  ELSE <<>>

ProjectEvaluationOutput(str) ==
  IF FloatField(str, "project_score") /\ StrField(str, "project_feedback")
  THEN <<[project_score |-> JsonGet(str, "project_score").n,
          project_feedback |-> JsonGet(str, "project_feedback").s]>>
  ELSE <<>>

FinalSummaryOutput(str) ==
  IF StrField(str, "overall_summary")
  THEN <<[overall_summary |-> JsonGet(str, "overall_summary").s]>>
  ELSE <<>>

OutputModel(stage, str) ==
  CASE stage = "cv" -> CvEvaluationOutput(str)
    [] stage = "project" -> ProjectEvaluationOutput(str)
    [] stage = "summary" -> FinalSummaryOutput(str)

\* json.loads(json_str) and output_model(**json_data): the validated data, or
\* the error that is raised
LoadAndValidate(str, stage) ==
  IF JsonKind(str) = "error"
  THEN [ok |-> FALSE, data |-> <<>>, error |-> "Invalid JSON response from LLM"]
  ELSE IF JsonKind(str) = "other"
  THEN [ok |-> FALSE, data |-> <<>>, error |-> "TypeError"]
  ELSE IF OutputModel(stage, str) = <<>>
  THEN [ok |-> FALSE, data |-> <<>>, error |-> "LLM output schema mismatch"]
  ELSE [ok |-> TRUE, data |-> OutputModel(stage, str), error |-> ""]

\* parse_llm_json(llm_output, output_model); json_str is computed once
parse_llm_json(text, stage) ==
  CHOOSE res \in {LoadAndValidate(str, stage) : str \in {JsonStr(text)}} : TRUE


\* ------------------------------------------------------------------------
\* call_gemini_with_retry
\* ------------------------------------------------------------------------

\* outcomes of one llm_model.generate_content call
LLMFailure == [ok |-> FALSE, text |-> <<>>]
LLMSuccess(text) == [ok |-> TRUE, text |-> text]
LLMOutcomes == {LLMFailure} \cup {LLMSuccess(t) : t \in ResponseTexts}

\* RetryIteration giving up one attempt early
RetryIterationGivesUpEarly(attempt, retries, outcome) ==
  IF outcome.ok
  THEN [kind |-> "return", text |-> outcome.text, attempt |-> attempt, slept |-> 0]
  ELSE IF attempt < retries - 2
  THEN [kind |-> "continue", text |-> <<>>, attempt |-> attempt + 1, slept |-> 1]
  ELSE [kind |-> "raise", text |-> <<>>, attempt |-> attempt, slept |-> 0]

\* RetryIteration that sleeps after the last failure too and never raises
RetryIterationNeverRaises(attempt, retries, outcome) ==
  IF outcome.ok
  THEN [kind |-> "return", text |-> outcome.text, attempt |-> attempt, slept |-> 0]
  ELSE IF attempt < retries
  THEN [kind |-> "continue", text |-> <<>>, attempt |-> attempt + 1, slept |-> 1]
  ELSE [kind |-> "raise", text |-> <<>>, attempt |-> attempt, slept |-> 0]

\* RetryIteration that sleeps before it raises after the last attempt
RetryIterationSleepsAfterLast(attempt, retries, outcome) ==
  IF outcome.ok
  THEN [kind |-> "return", text |-> outcome.text, attempt |-> attempt, slept |-> 0]
  ELSE IF attempt < retries - 1
  THEN [kind |-> "continue", text |-> <<>>, attempt |-> attempt + 1, slept |-> 1]
  ELSE [kind |-> "raise", text |-> <<>>, attempt |-> attempt, slept |-> 1]

\* one iteration of `for attempt in range(retries)`: the call has been made
\* with the given outcome; "return" the text, "continue" after a sleep with
\* the next attempt, or "raise"
RetryIteration(attempt, retries, outcome) ==
  IF outcome.ok
  THEN [kind |-> "return", text |-> outcome.text, attempt |-> attempt, slept |-> 0]
  ELSE IF attempt < retries - 1
  THEN [kind |-> "continue", text |-> <<>>, attempt |-> attempt + 1, slept |-> 1]
  ELSE [kind |-> "raise", text |-> <<>>, attempt |-> attempt, slept |-> 0]

\* range(retries) still has an attempt to run
LoopRuns(attempt, retries) == attempt < retries

\* ------------------------------------------------------------------------
\* scripts/ingest.py: split_text_into_chunks, generate_document_id
\* ------------------------------------------------------------------------

\* a document text is a sequence of characters; Chars are the characters of
\* the texts split_text_into_chunks is run on
NL == "\n"
Chars == {"a", "b", NL}
Whitespace == {" ", NL}

\* default of the chunk_size parameter
DefaultChunkSize == 1000

\* the longest text and the largest chunk_size split_text_into_chunks is run on
MaxTextLen == 7
MaxChunkSize == 9

\* the sequences over S of at most n elements
SeqsUpTo(S, n) == UNION {[1..k -> S] : k \in 0..n}

\* the first position where the separator "\n\n" starts, 0 when there is none
FirstSeparator(text) ==
  LET at == {i \in 1..(Len(text) - 1) : text[i] = NL /\ text[i + 1] = NL}
  IN IF at = {} THEN 0 ELSE Min(at)

\* text.split("\n\n")
RECURSIVE Split(_)
Split(text) ==
  IF FirstSeparator(text) = 0 THEN <<text>>
  ELSE <<SubSeq(text, 1, FirstSeparator(text) - 1)>>
       \o Split(SubSeq(text, FirstSeparator(text) + 2, Len(text)))

\* p.strip()
Strip(p) ==
  LET solid == {i \in 1..Len(p) : p[i] \notin Whitespace}
  IN IF solid = {} THEN <<>> ELSE SubSeq(p, Min(solid), Max(solid))

\* Paragraphs without the `if p.strip()` filter
ParagraphsKeepsBlank(text) ==
  LET parts == Split(text)
  IN [i \in 1..Len(parts) |-> Strip(parts[i])]

\* [p.strip() for p in text.split("\n\n") if p.strip()]
Paragraphs(text) ==
  LET parts == Split(text)
      kept == SelectSeq(parts, LAMBDA p : Strip(p) # <<>>)
  IN [i \in 1..Len(kept) |-> Strip(kept[i])]

\* {"text": current_chunk.strip(), "metadata": {"source": source_name}}
Chunk(current_chunk, source_name) ==
  [text |-> Strip(current_chunk), source |-> source_name]

\* PackParagraph that leaves the length of the current chunk out of the test
PackParagraphIgnoresBuffer(st, paragraph, source_name, chunk_size) ==
  IF Len(paragraph) + 2 <= chunk_size
  THEN [st EXCEPT !.current_chunk = @ \o paragraph \o <<NL, NL>>]
  ELSE [current_chunk |-> paragraph \o <<NL, NL>>,
        chunks |-> IF st.current_chunk # <<>>
                   THEN Append(st.chunks, Chunk(st.current_chunk, source_name))
                   ELSE st.chunks]

\* one iteration of `for paragraph in paragraphs` on the loop state
\* [current_chunk, chunks]
PackParagraph(st, paragraph, source_name, chunk_size) ==
  IF Len(st.current_chunk) + Len(paragraph) + 2 <= chunk_size
  THEN [st EXCEPT !.current_chunk = @ \o paragraph \o <<NL, NL>>]
  ELSE [current_chunk |-> paragraph \o <<NL, NL>>,
        chunks |-> IF st.current_chunk # <<>>
                   THEN Append(st.chunks, Chunk(st.current_chunk, source_name))
                   ELSE st.chunks]

\* FlushChunk that returns without the chunk still being filled
FlushChunkForgets(st, source_name) ==
  st.chunks

\* the `if current_chunk:` after the loop, and the returned chunks
FlushChunk(st, source_name) ==
  IF st.current_chunk # <<>>
  THEN Append(st.chunks, Chunk(st.current_chunk, source_name))
  ELSE st.chunks

EmptyPack == [current_chunk |-> <<>>, chunks |-> <<>>]

\* the loop state after the first n paragraphs
RECURSIVE PackFirst(_, _, _, _)
PackFirst(paragraphs, n, source_name, chunk_size) ==
  IF n = 0 THEN EmptyPack
  ELSE PackParagraph(PackFirst(paragraphs, n - 1, source_name, chunk_size),
                     paragraphs[n], source_name, chunk_size)

\* split_text_into_chunks(text, source_name, chunk_size)
split_text_into_chunks(text, source_name, chunk_size) ==
  FlushChunk(PackFirst(Paragraphs(text), Len(Paragraphs(text)), source_name,
                       chunk_size),
             source_name)

\* code of a character in the digest
CharCode(c) ==
  CASE c = "a" -> 1 [] c = "b" -> 2 [] c = " " -> 3 [] c = NL -> 4

\* generate_document_id: hashlib.md5(text).hexdigest(); the 128-bit digest is
\* stood for by the number the characters spell in base 5, which depends on
\* the text alone and differs for different texts of the model
RECURSIVE generate_document_id(_)
generate_document_id(text_chunk) ==
  IF text_chunk = <<>> THEN 0
  ELSE CharCode(text_chunk[1])
       + 5 * generate_document_id(SubSeq(text_chunk, 2, Len(text_chunk)))

\* ------------------------------------------------------------------------
\* State
\* ------------------------------------------------------------------------

VARIABLES
  collection,     \* services.collection: "ok" or "None"
  llm_model,      \* services.llm_model: "ok" or "None"
  file_database,  \* main.file_database: the ids of the uploaded files
  submitted,      \* ids returned by evaluate_candidate
  status,         \* Celery state of every id, as AsyncResult(id).status reads it
  task,           \* the worker's position and locals in the task of every id
  backend,        \* what the result backend stores for a finished task
  lastPoll,       \* the last answer of get_evaluation_result for every id
  index,          \* the chunks of the Chroma collection
  r,              \* one isolated run of call_gemini_with_retry
  op,             \* the last operation on the vector index and its outcome
  ck,             \* one isolated run of split_text_into_chunks
  pj              \* one isolated run of parse_llm_json

vars == <<collection, llm_model, file_database, submitted, status, task,
          backend, lastPoll, index, r, op, ck, pj>>

Stages == {"cv", "project", "summary"}

IdleTask ==
  [pc |-> "idle", attempt |-> 0, response |-> <<>>,
   cv_eval |-> <<>>, project_eval |-> <<>>, summary_eval |-> <<>>,
   final_result |-> <<>>, exc |-> "", failed_at |-> "",
   calls |-> [s \in Stages |-> 0], sleeps |-> 0, queries |-> <<>>,
   texts |-> <<>>, answered |-> <<>>, contexts |-> <<>>,
   successes |-> <<>>, heard |-> <<>>, started_after |-> {}]

NoBackend == [result |-> <<>>, info |-> ""]
NoPoll == [code |-> 0, status |-> "", result |-> <<>>, error |-> ""]
IdleRetry ==
  [pc |-> "off", retries |-> 0, attempt |-> 0, calls |-> 0, sleeps |-> 0,
   failures |-> 0, last |-> LLMFailure, text |-> <<>>]

\* Entry whose id is computed from the text and the source
EntryIdWithSource(text, source) ==
  [id |-> generate_document_id(text)
          + (IF source = "job_description" THEN 0 ELSE 100000),
   text |-> text, source |-> source]

\* a chunk as the collection stores it: ids=[md5 of the text], documents,
\* metadatas={"source": ...}
Entry(text, source) ==
  [id |-> generate_document_id(text), text |-> text, source |-> source]

\* contents the collection may have when the service starts: empty, one
\* chunk for two of the four categories, one chunk for each category
SeedIndexes ==
  { {},
    {Entry(<<"a">>, "job_description"), Entry(<<"b">>, "project_rubric")},
    {Entry(<<"a">>, "job_description"), Entry(<<"b">>, "cv_rubric"),
     Entry(<<"a", "a">>, "case_study_brief"),
     Entry(<<"a", "b">>, "project_rubric")} }

NoOp ==
  [name |-> "", file |-> "", content |-> <<>>, source_name |-> "",
   sources |-> {}, reachable |-> FALSE, before |-> {}, kind |-> "",
   code |-> 0, chunks_added |-> 0, context |-> <<>>, listing |-> {}]
IdleChunker ==
  [pc |-> "off", text |-> <<>>, chunk_size |-> 0, source_name |-> "",
   paragraphs |-> <<>>, i |-> 0, current_chunk |-> <<>>, chunks |-> <<>>]
IdleParse == [pc |-> "off", text |-> <<>>, stage |-> "", ok |-> FALSE,
              data |-> <<>>, error |-> ""]

Init ==
  /\ collection \in {"ok", "None"}
  /\ llm_model \in {"ok", "None"}
  /\ file_database = {}
  /\ submitted = {}
  /\ status = [j \in JobIds |-> "PENDING"]
  /\ task = [j \in JobIds |-> IdleTask]
  /\ backend = [j \in JobIds |-> NoBackend]
  /\ lastPoll = [j \in JobIds |-> NoPoll]
  /\ index \in SeedIndexes
  /\ r = IdleRetry
  /\ op = NoOp
  /\ ck = IdleChunker
  /\ pj = IdleParse

\* ------------------------------------------------------------------------
\* app/main.py: upload, submission
\* ------------------------------------------------------------------------

\* POST /upload: stores the two files and records them in file_database
upload_files ==
  /\ file_database = {}
  /\ file_database' = {CvFileId, ReportFileId}
  /\ UNCHANGED <<collection, llm_model, submitted, status, task, backend,
                 lastPoll, index, r, op, ck, pj>>

\* POST /evaluate: answers 404 and enqueues nothing when a file id is not in
\* file_database, else the task is enqueued under a fresh id and that id is
\* returned with status "queued"
evaluate_candidate(j, cv_id, project_report_id) ==
  /\ j \notin submitted
  /\ cv_id \in file_database
  /\ project_report_id \in file_database
  /\ submitted' = submitted \cup {j}
  /\ UNCHANGED <<collection, llm_model, file_database, status, task,
                 backend, lastPoll, index, r, op, ck, pj>>

\* ------------------------------------------------------------------------
\* app/services.py: run_real_evaluation_pipeline
\* ------------------------------------------------------------------------

\* PipelineOrder with the project stage's call moved before the validation
\* of the CV stage's output
PipelineOrderReordered ==
  <<"parse_cv", "parse_report",
    "query_job_description", "query_cv_rubric", "llm_cv",
    "query_case_study_brief", "query_project_rubric", "llm_project",
    "validate_project", "validate_cv",
    "llm_summary", "validate_summary">>

\* PipelineOrder with the project report extracted only when the project
\* stage needs it
PipelineOrderLateReport ==
  <<"parse_cv",
    "query_job_description", "query_cv_rubric", "llm_cv", "validate_cv",
    "parse_report",
    "query_case_study_brief", "query_project_rubric", "llm_project",
    "validate_project",
    "llm_summary", "validate_summary">>

\* the statements of the pipeline's try block, in program order
PipelineOrder ==
  <<"parse_cv", "parse_report",
    "query_job_description", "query_cv_rubric", "llm_cv", "validate_cv",
    "query_case_study_brief", "query_project_rubric", "llm_project",
    "validate_project",
    "llm_summary", "validate_summary">>

IndexOf(pc) == CHOOSE i \in 1..Len(PipelineOrder) : PipelineOrder[i] = pc

\* the statement that runs after statement pc has finished normally
NextPc(pc) ==
  IF IndexOf(pc) < Len(PipelineOrder) THEN PipelineOrder[IndexOf(pc) + 1]
  ELSE "returned"

ParsePcs == {"parse_cv", "parse_report"}
QueryPcs == {"query_job_description", "query_cv_rubric",
             "query_case_study_brief", "query_project_rubric"}
LlmPcs == {"llm_cv", "llm_project", "llm_summary"}
ValidatePcs == {"validate_cv", "validate_project", "validate_summary"}

\* SourceOf with the rubrics of the two stages exchanged
SourceOfRubricsSwapped(pc) ==
  CASE pc = "query_job_description" -> "job_description"
    [] pc = "query_cv_rubric" -> "project_rubric"
    [] pc = "query_case_study_brief" -> "case_study_brief"
    [] pc = "query_project_rubric" -> "cv_rubric"

\* the sources=[...] argument of each query_rag call
SourceOf(pc) ==
  CASE pc = "query_job_description" -> "job_description"
    [] pc = "query_cv_rubric" -> "cv_rubric"
    [] pc = "query_case_study_brief" -> "case_study_brief"
    [] pc = "query_project_rubric" -> "project_rubric"

\* the stage an LLM call or a validation belongs to
StageOf(pc) ==
  CASE pc \in {"llm_cv", "validate_cv"} -> "cv"
    [] pc \in {"llm_project", "validate_project"} -> "project"
    [] pc \in {"llm_summary", "validate_summary"} -> "summary"

\* Raise with parse_pdf swallowing the reader's exception: the pipeline
\* goes on with the next statement
RaiseSwallowedByParse(t, msg) ==
  IF t.pc \in ParsePcs THEN [t EXCEPT !.pc = NextPc(t.pc), !.exc = msg]
  ELSE [t EXCEPT !.pc = "raised", !.exc = msg, !.failed_at = t.pc]

\* `except Exception as e: raise e`: the statement's error leaves the
\* pipeline, nothing after it runs (failed_at remembers the statement)
Raise(t, msg) == [t EXCEPT !.pc = "raised", !.exc = msg, !.failed_at = t.pc]

\* a statement finished normally
Advance(t) == [t EXCEPT !.pc = NextPc(t.pc)]

\* the task has received an answer of a collaborator (file reader, vector
\* store, LLM service): [ok, text]
Hear(t, answer) == [t EXCEPT !.heard = Append(@, answer)]

\* x_text = parse_pdf(path): the text of the document, or the reader's
\* exception
ParseStep(t, readable) ==
  IF readable
  THEN Advance([Hear(t, [ok |-> TRUE, text |-> <<>>]) EXCEPT
                  !.texts = Append(@, t.pc)])
  ELSE Raise(Hear(t, [ok |-> FALSE, text |-> <<>>]), "parse_pdf")

parse_pdf(j) ==
  /\ task[j].pc \in ParsePcs
  /\ \E readable \in BOOLEAN :
       task' = [task EXCEPT ![j] = ParseStep(@, readable)]
  /\ UNCHANGED <<collection, llm_model, file_database, submitted, status,
                 backend, lastPoll, index, r, op, ck, pj>>

\* default of the n_results parameter
DefaultNResults == 5

\* "\n---\n".join(docs)
RECURSIVE Join(_)
Join(docs) ==
  IF Len(docs) = 0 THEN <<>>
  ELSE IF Len(docs) = 1 THEN docs[1]
  ELSE docs[1] \o <<NL, "-", "-", "-", NL>> \o Join(Tail(docs))

\* the elements of a set of chunks as a sequence, by increasing id; it stands
\* for the order of decreasing similarity
RECURSIVE ById(_)
ById(chunks) ==
  IF chunks = {} THEN <<>>
  ELSE LET first == CHOOSE c \in chunks : \A d \in chunks : c.id <= d.id
       IN <<first>> \o ById(chunks \ {first})

\* collection.query(query_texts, n_results, where={"source": {"$in": sources}})
\* on a store that answers: results["documents"][0]
QueryDocuments(idx, sources, n_results) ==
  LET hits == ById({c \in idx : c.source \in sources})
      top == SubSeq(hits, 1, IF Len(hits) < n_results THEN Len(hits) ELSE n_results)
  IN [i \in 1..Len(top) |-> top[i].text]

\* QueryRag that answers "" when the query raises
QueryRagSwallowsError(coll, reachable, idx, sources, n_results) ==
  IF coll = "None"
  THEN [kind |-> "raise", issued |-> FALSE, context |-> <<>>,
        error |-> "Koneksi ChromaDB tidak tersedia."]
  ELSE IF ~reachable
  THEN [kind |-> "return", issued |-> TRUE, context |-> <<>>, error |-> ""]
  ELSE [kind |-> "return", issued |-> TRUE,
        context |-> Join(QueryDocuments(idx, sources, n_results)), error |-> ""]

\* QueryRag that treats an empty result as an error
QueryRagRaisesOnNoMatch(coll, reachable, idx, sources, n_results) ==
  IF coll = "None"
  THEN [kind |-> "raise", issued |-> FALSE, context |-> <<>>,
        error |-> "Koneksi ChromaDB tidak tersedia."]
  ELSE IF ~reachable \/ QueryDocuments(idx, sources, n_results) = <<>>
  THEN [kind |-> "raise", issued |-> TRUE, context |-> <<>>, error |-> "query_rag"]
  ELSE [kind |-> "return", issued |-> TRUE,
        context |-> Join(QueryDocuments(idx, sources, n_results)), error |-> ""]

\* query_rag(query_text, sources, n_results): raises without a query when
\* there is no collection, re-raises what collection.query raises, returns ""
\* when no document came back and the joined documents otherwise
QueryRag(coll, reachable, idx, sources, n_results) ==
  IF coll = "None"
  THEN [kind |-> "raise", issued |-> FALSE, context |-> <<>>,
        error |-> "Koneksi ChromaDB tidak tersedia."]
  ELSE IF ~reachable
  THEN [kind |-> "raise", issued |-> TRUE, context |-> <<>>, error |-> "query_rag"]
  ELSE [kind |-> "return", issued |-> TRUE,
        context |-> Join(QueryDocuments(idx, sources, n_results)), error |-> ""]

\* x_context = query_rag(...) in the pipeline, where res is what QueryRag
\* gives: the exception leaves the pipeline, the context is kept
QueryStep(t, res, reachable) ==
  LET issued == IF res.issued
                THEN [Hear(t, [ok |-> reachable, text |-> <<>>]) EXCEPT
                        !.queries = Append(@, SourceOf(t.pc)),
                        !.answered = Append(@, reachable)]
                ELSE t
  IN IF res.kind = "raise" THEN Raise(issued, res.error)
     ELSE Advance([issued EXCEPT !.contexts = Append(@, res.context)])

\* query_rag on a collection that an answered query leaves empty
query_rag_empties(j) ==
  /\ task[j].pc \in QueryPcs
  /\ \E reachable \in BOOLEAN :
     \E res \in {QueryRag(collection, reachable, index,
                          {SourceOf(task[j].pc)}, DefaultNResults)} :
       /\ task' = [task EXCEPT ![j] = QueryStep(@, res, reachable)]
       /\ index' = IF res.kind = "raise" THEN index ELSE {}
  /\ UNCHANGED <<collection, llm_model, file_database, submitted, status,
                 backend, lastPoll, r, op, ck, pj>>

\* a query_rag call of the pipeline; the store answers the query or is
\* unreachable
query_rag(j) ==
  /\ task[j].pc \in QueryPcs
  /\ \E reachable \in BOOLEAN :
     \E res \in {QueryRag(collection, reachable, index,
                          {SourceOf(task[j].pc)}, DefaultNResults)} :
       task' = [task EXCEPT ![j] = QueryStep(@, res, reachable)]
  /\ UNCHANGED <<collection, llm_model, file_database, submitted, status,
                 backend, lastPoll, index, r, op, ck, pj>>

\* GeminiStep whose loop does not move on to the next attempt
GeminiStepForgetsAttempt(t, outcome) ==
  LET it == RetryIteration(t.attempt, DefaultRetries, outcome)
      called == [Hear(t, outcome) EXCEPT
                   !.calls[StageOf(t.pc)] = @ + 1,
                   !.sleeps = @ + it.slept]
  IN CASE it.kind = "return" ->
            Advance([called EXCEPT !.response = it.text, !.attempt = 0,
                                   !.successes = Append(@, StageOf(t.pc))])
       [] it.kind = "continue" -> called
       [] it.kind = "raise" -> Raise(called, "llm_unavailable")

\* the result of a statement of call_gemini_with_retry on task record t
GeminiStep(t, outcome) ==
  LET it == RetryIteration(t.attempt, DefaultRetries, outcome)
      called == [Hear(t, outcome) EXCEPT
                   !.calls[StageOf(t.pc)] = @ + 1,
                   !.sleeps = @ + it.slept,
                   !.attempt = it.attempt]
  IN CASE it.kind = "return" ->
            Advance([called EXCEPT !.response = it.text, !.attempt = 0,
                                   !.successes = Append(@, StageOf(t.pc))])
       [] it.kind = "continue" -> called
       [] it.kind = "raise" -> Raise(called, "llm_unavailable")

\* one attempt of the retry loop of call_gemini_with_retry(prompt), with an
\* LLM service that answers with one of `outcomes`
call_gemini(j, outcomes) ==
  /\ task[j].pc \in LlmPcs
  /\ IF llm_model = "None"
     THEN task' = [task EXCEPT ![j] =
                     Raise(@, "Model LLM (Gemini) tidak terinisialisasi.")]
     ELSE IF ~LoopRuns(task[j].attempt, DefaultRetries)
     THEN task' = [task EXCEPT ![j] = Advance([@ EXCEPT !.response = <<>>])]
     ELSE \E outcome \in outcomes :
            task' = [task EXCEPT ![j] = GeminiStep(@, outcome)]
  /\ UNCHANGED <<collection, llm_model, file_database, submitted, status,
                 backend, lastPoll, index, r, op, ck, pj>>

\* call_gemini_with_retry(prompt)
call_gemini_with_retry(j) == call_gemini(j, LLMOutcomes)

\* EvaluationResultData with project_score copied from the CV stage
EvaluationResultDataMixedUp(cv_eval, project_eval, summary_eval) ==
  [cv_match_rate |-> cv_eval.cv_match_rate,
   cv_feedback |-> cv_eval.cv_feedback,
   project_score |-> cv_eval.cv_match_rate,
   project_feedback |-> project_eval.project_feedback,
   overall_summary |-> summary_eval.overall_summary]

\* final_result = EvaluationResultData(...)
EvaluationResultData(cv_eval, project_eval, summary_eval) ==
  [cv_match_rate |-> cv_eval.cv_match_rate,
   cv_feedback |-> cv_eval.cv_feedback,
   project_score |-> project_eval.project_score,
   project_feedback |-> project_eval.project_feedback,
   overall_summary |-> summary_eval.overall_summary]

\* OnInvalidOutput asking the LLM again instead of raising
OnInvalidOutputRetried(t, parsed) ==
  [t EXCEPT !.pc = IF StageOf(t.pc) = "cv" THEN "llm_cv"
                   ELSE IF StageOf(t.pc) = "project" THEN "llm_project"
                   ELSE "llm_summary"]

\* the statement after a failed parse_llm_json: the exception is raised
OnInvalidOutput(t, parsed) == Raise(t, parsed.error)

\* x_eval = parse_llm_json(x_response_str, XOutput) with the given outcome of
\* parse_llm_json; after the summary stage the final result is assembled
\* and returned
ValidateStep(t, parsed) ==
  LET stage == StageOf(t.pc)
  IN IF ~parsed.ok THEN OnInvalidOutput(t, parsed)
     ELSE IF stage = "cv" THEN Advance([t EXCEPT !.cv_eval = parsed.data])
     ELSE IF stage = "project" THEN Advance([t EXCEPT !.project_eval = parsed.data])
     ELSE Advance([t EXCEPT
            !.summary_eval = parsed.data,
            !.final_result =
               <<EvaluationResultData(t.cv_eval[1], t.project_eval[1],
                                      parsed.data[1])>>])

\* validate_output reading the response a module-level variable holds, the
\* last one any job has stored
validate_output_shared(j) ==
  /\ task[j].pc \in ValidatePcs
  /\ \E k \in JobIds :
     \E parsed \in {parse_llm_json(task[k].response, StageOf(task[j].pc))} :
       task' = [task EXCEPT ![j] = ValidateStep(@, parsed)]
  /\ UNCHANGED <<collection, llm_model, file_database, submitted, status,
                 backend, lastPoll, index, r, op, ck, pj>>

validate_output(j) ==
  /\ task[j].pc \in ValidatePcs
  /\ \E parsed \in {parse_llm_json(task[j].response, StageOf(task[j].pc))} :
       task' = [task EXCEPT ![j] = ValidateStep(@, parsed)]
  /\ UNCHANGED <<collection, llm_model, file_database, submitted, status,
                 backend, lastPoll, index, r, op, ck, pj>>

\* ------------------------------------------------------------------------
\* app/worker.py: evaluate_candidate_task under Celery
\* ------------------------------------------------------------------------

\* a worker receives the task: task_track_started=True records STARTED
task_started(j) ==
  /\ j \in submitted
  /\ status[j] = "PENDING"
  /\ task[j].pc = "idle"
  /\ status' = [status EXCEPT ![j] = "STARTED"]
  /\ task' = [task EXCEPT ![j].pc = PipelineOrder[1],
                          ![j].started_after =
                             {k \in JobIds : status[k] # "PENDING"}]
  /\ UNCHANGED <<collection, llm_model, file_database, submitted, backend,
                 lastPoll, index, r, op, ck, pj>>

\* FinishState of a wrapper that swallows the exception and returns
FinishStateAlwaysSuccess(pc) == "SUCCESS"

\* FinishState of a wrapper that asks Celery to retry the task on failure
FinishStateRetry(pc) == IF pc = "returned" THEN "SUCCESS" ELSE "RETRY"

\* the Celery state recorded when the task function ends
FinishState(pc) == IF pc = "returned" THEN "SUCCESS" ELSE "FAILURE"

\* what the backend stores: final_result.model_dump() or the exception
FinishBackend(t) ==
  IF t.pc = "returned" THEN [result |-> t.final_result, info |-> ""]
  ELSE [result |-> <<>>, info |-> t.exc]

\* return final_result.model_dump() / raise e
task_finished(j) ==
  /\ task[j].pc \in {"returned", "raised"}
  /\ status[j] = "STARTED"
  /\ status' = [status EXCEPT ![j] = FinishState(task[j].pc)]
  /\ backend' = [backend EXCEPT ![j] = FinishBackend(task[j])]
  /\ UNCHANGED <<collection, llm_model, file_database, submitted, task,
                 lastPoll, index, r, op, ck, pj>>

\* ------------------------------------------------------------------------
\* app/main.py: get_evaluation_result
\* ------------------------------------------------------------------------

Response(code, st, result, error) ==
  [code |-> code, status |-> st, result |-> result, error |-> error]

\* ResultResponse with the STARTED branch answering "failed"
ResultResponseStartedFailed(state, stored) ==
  CASE state = "SUCCESS" ->
         IF stored.result = <<>> THEN Response(500, "", <<>>, "")
         ELSE Response(200, "completed", stored.result, "")
    [] state = "FAILURE" -> Response(200, "failed", <<>>, stored.info)
    [] state \in {"STARTED", "RETRY"} -> Response(200, "failed", <<>>, "")
    [] state = "PENDING" -> Response(200, "queued", <<>>, "")
    [] OTHER -> Response(404, "", <<>>, "")

\* the answer of GET /result/{id} for a Celery state and backend entry
ResultResponse(state, stored) ==
  CASE state = "SUCCESS" ->
         IF stored.result = <<>> THEN Response(500, "", <<>>, "")
         ELSE Response(200, "completed", stored.result, "")
    [] state = "FAILURE" -> Response(200, "failed", <<>>, stored.info)
    [] state \in {"STARTED", "RETRY"} -> Response(200, "processing", <<>>, "")
    [] state = "PENDING" -> Response(200, "queued", <<>>, "")
    [] OTHER -> Response(404, "", <<>>, "")

get_evaluation_result(id) ==
  /\ lastPoll' = [lastPoll EXCEPT ![id] = ResultResponse(status[id], backend[id])]
  /\ UNCHANGED <<collection, llm_model, file_database, submitted, status,
                 task, backend, index, r, op, ck, pj>>

\* ------------------------------------------------------------------------
\* Specification of the service
\* ------------------------------------------------------------------------

Next ==
  \/ upload_files
  \/ \E j \in SoloJobs, c \in FileIds, p \in FileIds : evaluate_candidate(j, c, p)
  \/ \E j \in JobIds : task_started(j)
  \/ \E j \in JobIds : parse_pdf(j)
  \/ \E j \in JobIds : query_rag(j)
  \/ \E j \in JobIds : call_gemini_with_retry(j)
  \/ \E j \in JobIds : validate_output(j)
  \/ \E j \in JobIds : task_finished(j)
  \/ \E id \in JobIds : get_evaluation_result(id)

Spec == Init /\ [][Next]_vars


\* ------------------------------------------------------------------------
\* call_gemini_with_retry on its own, for every value of `retries`
\* ------------------------------------------------------------------------

InitRetry ==
  /\ collection = "ok"
  /\ llm_model \in {"ok", "None"}
  /\ file_database = {}
  /\ submitted = {}
  /\ status = [j \in JobIds |-> "PENDING"]
  /\ task = [j \in JobIds |-> IdleTask]
  /\ backend = [j \in JobIds |-> NoBackend]
  /\ lastPoll = [j \in JobIds |-> NoPoll]
  /\ index = {}
  /\ \E n \in 0..MaxRetries : r = [IdleRetry EXCEPT !.pc = "loop", !.retries = n]
  /\ op = NoOp
  /\ ck = IdleChunker
  /\ pj = IdleParse

\* the run after one more call with the given outcome
RetryCall(run, outcome) ==
  LET it == RetryIteration(run.attempt, run.retries, outcome)
      called == [run EXCEPT !.calls = @ + 1,
                            !.failures = @ + (IF outcome.ok THEN 0 ELSE 1),
                            !.last = outcome,
                            !.sleeps = @ + it.slept,
                            !.attempt = it.attempt]
  IN CASE it.kind = "return" -> [called EXCEPT !.pc = "returned", !.text = it.text]
       [] it.kind = "continue" -> called
       [] it.kind = "raise" -> [called EXCEPT !.pc = "raised"]

\* one statement of call_gemini_with_retry(prompt, retries)
retry_step ==
  /\ r.pc = "loop"
  /\ IF llm_model = "None"
     THEN r' = [r EXCEPT !.pc = "raised"]
     ELSE IF ~LoopRuns(r.attempt, r.retries)
     THEN r' = [r EXCEPT !.pc = "returned", !.text = <<>>]
     ELSE \E outcome \in LLMOutcomes : r' = RetryCall(r, outcome)
  /\ UNCHANGED <<collection, llm_model, file_database, submitted, status,
                 task, backend, lastPoll, index, op, ck, pj>>

NextRetry == retry_step

SpecRetry == InitRetry /\ [][NextRetry]_vars


\* ------------------------------------------------------------------------
\* The service with a worker that keeps running the task it has received
\* ------------------------------------------------------------------------

\* the statements a worker runs for a task it has received
WorkerStep(j) ==
  \/ parse_pdf(j)
  \/ query_rag(j)
  \/ call_gemini_with_retry(j)
  \/ validate_output(j)
  \/ task_finished(j)

FairSpec == Spec /\ \A j \in JobIds : WF_vars(WorkerStep(j))

\* ------------------------------------------------------------------------
\* app/services.py: the operations on the vector index
\* ------------------------------------------------------------------------

\* the files POST /documents is given: a text file, a PDF whose pages can be
\* read, a PDF PdfReader cannot read, a file that is neither
Files == {"txt", "pdf", "corrupt_pdf", "unsupported"}

\* the text of the uploaded document
Documents == {<<>>, <<" ">>, <<"a">>, <<"b">>, <<"a", NL, NL, "b">>}

\* the source_name form field
SourceNames == {"job_description", "cv_rubric"}

\* the `sources` a query filters on
SourceFilters ==
  {{"job_description"}, {"cv_rubric"}, {"job_description", "cv_rubric"}}

\* _get_chroma_collection(): the global collection when there is one, else a
\* new connection, None when that fails
_get_chroma_collection(coll, reachable) ==
  IF coll # "None" THEN coll ELSE IF reachable THEN "ok" ELSE "None"

\* the `content` ingest_document builds: the decoded bytes of a text file,
\* every page's text followed by "\n\n" for a PDF (of one page)
FileContent(file, text) ==
  IF file = "pdf" THEN text \o <<NL, NL>> ELSE text

\* Upsert that adds the chunks beside the stored ones
UpsertAppends(idx, chunks) ==
  idx \cup {Entry(chunks[i].text, chunks[i].source) : i \in 1..Len(chunks)}

\* coll.upsert(documents, metadatas, ids): every chunk replaces the stored
\* chunk of its id
Upsert(idx, chunks) ==
  LET ids == {generate_document_id(chunks[i].text) : i \in 1..Len(chunks)}
  IN {c \in idx : c.id \notin ids}
     \cup {Entry(chunks[i].text, chunks[i].source) : i \in 1..Len(chunks)}

\* IngestDocument that has written the chunks when it finds the store
\* unavailable
IngestDocumentWritesFirst(coll, reachable, empty_ok, idx, file, text, source_name) ==
  LET chunks == split_text_into_chunks(FileContent(file, text), source_name,
                                       DefaultChunkSize)
      failed(code, after) == [kind |-> "raise", code |-> code,
                              chunks_added |-> 0, index |-> after]
  IN IF file \notin {"txt", "pdf"} THEN failed(400, idx)
     ELSE IF _get_chroma_collection(coll, reachable) = "None"
     THEN failed(500, Upsert(idx, chunks))
     ELSE IF ~reachable \/ (chunks = <<>> /\ ~empty_ok)
     THEN failed(500, Upsert(idx, chunks))
     ELSE [kind |-> "return", code |-> 201, chunks_added |-> Len(chunks),
           index |-> Upsert(idx, chunks)]

\* ingest_document(file_bytes, file_name, source_name) on index idx; code is
\* the status of the HTTPException, 500 also for an exception upload_document
\* turns into one; empty_ok tells whether the store accepts an upsert of no
\* chunk
IngestDocument(coll, reachable, empty_ok, idx, file, text, source_name) ==
  LET failed(code) == [kind |-> "raise", code |-> code, chunks_added |-> 0,
                       index |-> idx]
      chunks == split_text_into_chunks(FileContent(file, text), source_name,
                                       DefaultChunkSize)
  IN IF file \notin {"txt", "pdf"} THEN failed(400)
     ELSE IF _get_chroma_collection(coll, reachable) = "None" THEN failed(500)
     ELSE IF ~reachable \/ (chunks = <<>> /\ ~empty_ok) THEN failed(500)
     ELSE [kind |-> "return", code |-> 201, chunks_added |-> Len(chunks),
           index |-> Upsert(idx, chunks)]

\* list_ground_truth_documents(): source_name and chunk_count of every source
ListGroundTruthDocuments(coll, reachable, idx) ==
  IF _get_chroma_collection(coll, reachable) = "None"
  THEN [kind |-> "return", code |-> 200, listing |-> {}]
  ELSE IF ~reachable
  THEN [kind |-> "raise", code |-> 500, listing |-> {}]
  ELSE [kind |-> "return", code |-> 200,
        listing |-> {[source_name |-> src,
                      chunk_count |-> Cardinality({c \in idx : c.source = src})]
                     : src \in {c.source : c \in idx}}]

\* POST /documents with the given file: upload_document calls
\* ingest_document and answers 201 or the error
upload_document(file, text, source_name, reachable, empty_ok) ==
  /\ \E res \in {IngestDocument(collection, reachable, empty_ok, index, file,
                                text, source_name)} :
       /\ index' = res.index
       /\ op' = [NoOp EXCEPT !.name = "ingest_document", !.file = file,
                             !.content = text, !.source_name = source_name,
                             !.reachable = reachable, !.before = index,
                             !.kind = res.kind, !.code = res.code,
                             !.chunks_added = res.chunks_added]
  /\ UNCHANGED <<collection, llm_model, file_database, submitted, status,
                 task, backend, lastPoll, r, ck, pj>>

\* POST /documents
ingest_document ==
  \E file \in Files, source_name \in SourceNames,
     reachable \in BOOLEAN, empty_ok \in BOOLEAN :
    \E text \in (IF file \in {"txt", "pdf"} THEN Documents ELSE {<<>>}) :
      upload_document(file, text, source_name, reachable, empty_ok)

\* GET /documents
list_ground_truth_documents ==
  /\ \E reachable \in BOOLEAN :
     \E res \in {ListGroundTruthDocuments(collection, reachable, index)} :
       op' = [NoOp EXCEPT !.name = "list_ground_truth_documents",
                          !.reachable = reachable, !.before = index,
                          !.kind = res.kind, !.code = res.code,
                          !.listing = res.listing]
  /\ UNCHANGED <<collection, llm_model, file_database, submitted, status,
                 task, backend, lastPoll, index, r, ck, pj>>

\* a call of query_rag(query_text, sources)
query_rag_call ==
  /\ \E sources \in SourceFilters, reachable \in BOOLEAN :
     \E res \in {QueryRag(collection, reachable, index, sources,
                          DefaultNResults)} :
       op' = [NoOp EXCEPT !.name = "query_rag", !.sources = sources,
                          !.reachable = reachable, !.before = index,
                          !.kind = res.kind,
                          !.code = IF res.kind = "raise" THEN 500 ELSE 200,
                          !.context = res.context]
  /\ UNCHANGED <<collection, llm_model, file_database, submitted, status,
                 task, backend, lastPoll, index, r, ck, pj>>

InitIndex ==
  /\ collection \in {"ok", "None"}
  /\ llm_model = "ok"
  /\ file_database = {}
  /\ submitted = {}
  /\ status = [j \in JobIds |-> "PENDING"]
  /\ task = [j \in JobIds |-> IdleTask]
  /\ backend = [j \in JobIds |-> NoBackend]
  /\ lastPoll = [j \in JobIds |-> NoPoll]
  /\ index \in SeedIndexes
  /\ r = IdleRetry
  /\ op = NoOp
  /\ ck = IdleChunker
  /\ pj = IdleParse

NextIndex ==
  \/ ingest_document
  \/ list_ground_truth_documents
  \/ query_rag_call

SpecIndex == InitIndex /\ [][NextIndex]_vars

\* ------------------------------------------------------------------------
\* One job of the service while documents are uploaded
\* ------------------------------------------------------------------------

\* the document uploaded while the job runs
JobTimeDocuments == {<<"a">>}

InitService ==
  /\ Init
  /\ collection = "ok"
  /\ llm_model = "ok"
  /\ Cardinality(index) = 2

NextService ==
  \/ upload_files
  \/ \E j \in SoloJobs, c \in FileIds, p \in FileIds : evaluate_candidate(j, c, p)
  \/ \E j \in SoloJobs : task_started(j)
  \/ \E j \in SoloJobs : parse_pdf(j)
  \/ \E j \in SoloJobs : query_rag(j)
  \/ \E j \in SoloJobs : call_gemini_with_retry(j)
  \/ \E j \in SoloJobs : validate_output(j)
  \/ \E j \in SoloJobs : task_finished(j)
  \/ \E text \in JobTimeDocuments, source_name \in SourceNames,
        reachable \in BOOLEAN :
       upload_document("txt", text, source_name, reachable, TRUE)

SpecService == InitService /\ [][NextService]_vars

\* ------------------------------------------------------------------------
\* Two jobs on separate workers
\* ------------------------------------------------------------------------

\* what the LLM service answers while two jobs run: a failure, prose
\* without JSON, or an object with the fields of all three stage outputs
WorkerOutcomes ==
  {LLMFailure,
   LLMSuccess(<<Prose, Prose>>),
   LLMSuccess(<<LB, Num("cv_match_rate", 8), Str("cv_feedback", "ok"),
                Num("project_score", 45), Str("project_feedback", "ok"),
                Str("overall_summary", "ok"), RB>>)}

InitWorkers ==
  /\ Init
  /\ collection = "ok"
  /\ llm_model = "ok"
  /\ Cardinality(index) = 2

NextWorkers ==
  \/ upload_files
  \/ \E j \in JobIds : evaluate_candidate(j, CvFileId, ReportFileId)
  \/ \E j \in JobIds : task_started(j)
  \/ \E j \in JobIds : parse_pdf(j)
  \/ \E j \in JobIds : query_rag(j)
  \/ \E j \in JobIds : call_gemini(j, WorkerOutcomes)
  \/ \E j \in JobIds : validate_output(j)
  \/ \E j \in JobIds : task_finished(j)

SpecWorkers == InitWorkers /\ [][NextWorkers]_vars

\* ------------------------------------------------------------------------
\* split_text_into_chunks on its own, for every text and chunk_size
\* ------------------------------------------------------------------------

InitChunk ==
  /\ collection = "ok"
  /\ llm_model = "ok"
  /\ file_database = {}
  /\ submitted = {}
  /\ status = [j \in JobIds |-> "PENDING"]
  /\ task = [j \in JobIds |-> IdleTask]
  /\ backend = [j \in JobIds |-> NoBackend]
  /\ lastPoll = [j \in JobIds |-> NoPoll]
  /\ index = {}
  /\ r = IdleRetry
  /\ op = NoOp
  /\ \E text \in SeqsUpTo(Chars, MaxTextLen), chunk_size \in 0..MaxChunkSize :
       ck = [IdleChunker EXCEPT !.pc = "loop", !.text = text,
                                !.chunk_size = chunk_size,
                                !.source_name = "job_description",
                                !.paragraphs = Paragraphs(text)]
  /\ pj = IdleParse

\* one iteration of `for paragraph in paragraphs`
pack_paragraph ==
  /\ ck.pc = "loop"
  /\ ck.i < Len(ck.paragraphs)
  /\ \E st \in {PackParagraph([current_chunk |-> ck.current_chunk,
                               chunks |-> ck.chunks],
                              ck.paragraphs[ck.i + 1], ck.source_name,
                              ck.chunk_size)} :
       ck' = [ck EXCEPT !.i = @ + 1, !.current_chunk = st.current_chunk,
                        !.chunks = st.chunks]
  /\ UNCHANGED <<collection, llm_model, file_database, submitted, status,
                 task, backend, lastPoll, index, r, op, pj>>

\* the statements after the loop: the last chunk and `return chunks`
return_chunks ==
  /\ ck.pc = "loop"
  /\ ck.i = Len(ck.paragraphs)
  /\ ck' = [ck EXCEPT !.pc = "returned",
                      !.chunks = FlushChunk([current_chunk |-> ck.current_chunk,
                                             chunks |-> ck.chunks],
                                            ck.source_name)]
  /\ UNCHANGED <<collection, llm_model, file_database, submitted, status,
                 task, backend, lastPoll, index, r, op, pj>>

NextChunk ==
  \/ pack_paragraph
  \/ return_chunks

SpecChunk == InitChunk /\ [][NextChunk]_vars

\* ------------------------------------------------------------------------
\* parse_llm_json on its own, for every response text
\* ------------------------------------------------------------------------

\* what a response text is made of
ParseTokens == {LB, RB, Prose, Scalar, Str("overall_summary", "ok")}

InitParse ==
  /\ collection = "ok"
  /\ llm_model = "ok"
  /\ file_database = {}
  /\ submitted = {}
  /\ status = [j \in JobIds |-> "PENDING"]
  /\ task = [j \in JobIds |-> IdleTask]
  /\ backend = [j \in JobIds |-> NoBackend]
  /\ lastPoll = [j \in JobIds |-> NoPoll]
  /\ index = {}
  /\ r = IdleRetry
  /\ op = NoOp
  /\ ck = IdleChunker
  /\ \E text \in SeqsUpTo(ParseTokens, MaxTokens), stage \in {"cv", "summary"} :
       pj = [IdleParse EXCEPT !.pc = "call", !.text = text, !.stage = stage]

\* parse_llm_json(llm_output, output_model)
parse_call ==
  /\ pj.pc = "call"
  /\ \E res \in {parse_llm_json(pj.text, pj.stage)} :
       pj' = [pj EXCEPT !.pc = IF res.ok THEN "returned" ELSE "raised",
                        !.ok = res.ok, !.data = res.data, !.error = res.error]
  /\ UNCHANGED <<collection, llm_model, file_database, submitted, status,
                 task, backend, lastPoll, index, r, op, ck>>

NextParse == parse_call

SpecParse == InitParse /\ [][NextParse]_vars

\* ------------------------------------------------------------------------
\* Properties
\* ------------------------------------------------------------------------

Terminal == {"SUCCESS", "FAILURE"}

\* C1: within one job the LLM calls are made in the order CV, project,
\* summary: a project-stage call is made only after the CV stage's output
\* has been validated, a summary-stage call only after both the CV and the
\* project output have been validated, and no call of an earlier stage
\* follows a call of a later stage.
C1_StageOrder ==
  [][\A j \in JobIds :
       LET t == task[j]
           u == task'[j]
       IN /\ u.calls["cv"] > t.calls["cv"]
               => t.calls["project"] = 0 /\ t.calls["summary"] = 0
          /\ u.calls["project"] > t.calls["project"]
               => t.cv_eval # <<>> /\ t.calls["cv"] > 0 /\ t.calls["summary"] = 0
          /\ u.calls["summary"] > t.calls["summary"]
               => t.cv_eval # <<>> /\ t.project_eval # <<>>
                  /\ t.calls["project"] > 0]_vars

C1_Witness ==
  /\ task["j1"].calls["cv"] = 2
  /\ task["j1"].calls["project"] = 1
  /\ task["j1"].calls["summary"] = 1

\* what may have run when the statement named by failed_at failed: the most
\* index queries, and the stages that may have made an LLM call
C2_Reach(failed_at) ==
  CASE failed_at \in ParsePcs -> [queries |-> 0, stages |-> {}]
    [] failed_at = "query_job_description" -> [queries |-> 1, stages |-> {}]
    [] failed_at = "query_cv_rubric" -> [queries |-> 2, stages |-> {}]
    [] failed_at \in {"llm_cv", "validate_cv"} -> [queries |-> 2, stages |-> {"cv"}]
    [] failed_at = "query_case_study_brief" -> [queries |-> 3, stages |-> {"cv"}]
    [] failed_at = "query_project_rubric" -> [queries |-> 4, stages |-> {"cv"}]
    [] failed_at \in {"llm_project", "validate_project"} ->
         [queries |-> 4, stages |-> {"cv", "project"}]
    [] OTHER -> [queries |-> 4, stages |-> Stages]

C2_Aborted(j) ==
  LET t == task[j]
      reach == C2_Reach(t.failed_at)
  IN /\ t.exc # "" => t.pc = "raised"
     /\ t.pc = "raised" =>
          /\ Len(t.queries) <= reach.queries
          /\ \A s \in Stages \ reach.stages : t.calls[s] = 0
          /\ "cv" \notin reach.stages \/ t.failed_at \in {"llm_cv", "validate_cv"}
               => t.cv_eval = <<>>
          /\ "project" \notin reach.stages
               \/ t.failed_at \in {"llm_project", "validate_project"}
               => t.project_eval = <<>>
          /\ t.summary_eval = <<>>
          /\ t.final_result = <<>>
          /\ t.failed_at \in ParsePcs => t.exc = "parse_pdf"
          /\ t.failed_at \in QueryPcs
               => t.exc \in {"query_rag", "Koneksi ChromaDB tidak tersedia."}
          /\ t.failed_at \in LlmPcs
               => t.exc \in {"llm_unavailable",
                             "Model LLM (Gemini) tidak terinisialisasi."}
          /\ t.failed_at \in ValidatePcs
               => t.exc \in {"Invalid JSON response from LLM", "TypeError",
                             "LLM output schema mismatch"}
          /\ t.failed_at = "llm_cv" /\ t.exc = "llm_unavailable"
               => /\ t.calls["cv"] = 3
                  /\ t.queries = <<"job_description", "cv_rubric">>
          /\ status[j] \in {"STARTED", "FAILURE"}
          /\ status[j] = "FAILURE" => backend[j] = [result |-> <<>>, info |-> t.exc]

\* C2: when a step of the pipeline fails (document parsing, retrieval, an
\* LLM call after its retries, output validation) no later step is executed
\* and the job ends failed with that step's error; when the CV stage's LLM
\* call fails after its retries, no project-stage retrieval or LLM call is
\* ever made.
C2_FailureAborts ==
  /\ [](\A j \in JobIds : C2_Aborted(j))
  /\ [][\A j \in JobIds : task[j].pc = "raised" => task'[j] = task[j]]_vars

C2_Witness ==
  /\ status["j1"] = "FAILURE"
  /\ task["j1"].failed_at = "llm_cv"
  /\ task["j1"].calls["cv"] = 3
  /\ backend["j1"].info = "llm_unavailable"

\* C3: a job is reported completed only if the CV, the project and the
\* summary stage each produced a validated output in that run, the result
\* is exactly the five fields taken from those outputs, and a job in which
\* a stage failed is never reported completed and exposes no result.
C3_CompletedOnlyWithAllStages ==
  \A id \in JobIds :
    LET t == task[id]
        p == lastPoll[id]
    IN /\ p.status = "completed" =>
            /\ t.cv_eval # <<>> /\ t.project_eval # <<>> /\ t.summary_eval # <<>>
            /\ t.calls["cv"] > 0 /\ t.calls["project"] > 0 /\ t.calls["summary"] > 0
            /\ p.result =
                 <<[cv_match_rate |-> t.cv_eval[1].cv_match_rate,
                    cv_feedback |-> t.cv_eval[1].cv_feedback,
                    project_score |-> t.project_eval[1].project_score,
                    project_feedback |-> t.project_eval[1].project_feedback,
                    overall_summary |-> t.summary_eval[1].overall_summary]>>
       /\ t.pc = "raised" => p.status # "completed" /\ p.result = <<>>
       /\ p.status # "completed" => p.result = <<>>

C3_Witness ==
  /\ lastPoll["j1"].status = "completed"
  /\ lastPoll["j1"].result # <<>>
  /\ lastPoll["j1"].result[1].project_score = 45

\* C4: for every retries >= 1 and every k < retries, when the first k calls
\* fail and call k+1 succeeds, call_gemini_with_retry returns the text of
\* that call after exactly k+1 calls: k < retries failures never end the run
\* with an error, and a successful call ends it at once with its text.
C4_ReturnsFirstSuccess ==
  (r.retries >= 1 /\ llm_model = "ok") =>
    /\ r.failures < r.retries => r.pc # "raised"
    /\ r.pc = "loop" => r.calls = r.failures /\ r.failures < r.retries
    /\ (r.calls > 0 /\ r.last.ok) => r.pc = "returned"
    /\ r.pc = "returned" =>
         /\ r.last.ok
         /\ r.text = r.last.text
         /\ r.calls = r.failures + 1
         /\ r.failures < r.retries

C4_Witness ==
  /\ r.retries = 3
  /\ r.failures = 2
  /\ r.calls = 3
  /\ r.pc = "returned"
  /\ r.text = <<LB, Num("cv_match_rate", 8), Str("cv_feedback", "ok"), RB>>

\* C5: for every retries >= 1, when every call fails, call_gemini_with_retry
\* raises after exactly `retries` calls and makes no further call.
C5_RaisesAfterRetries ==
  (r.retries >= 1 /\ llm_model = "ok") =>
    /\ r.calls <= r.retries
    /\ r.failures = r.retries <=> r.pc = "raised"
    /\ r.pc = "raised" => r.calls = r.retries /\ r.text = <<>>

C5_Witness ==
  /\ llm_model = "ok"
  /\ r.retries = 3
  /\ r.failures = 3
  /\ r.calls = 3
  /\ r.pc = "raised"

\* responses that are not valid JSON or do not match the stage's schema
C6_InvalidFor(stage) ==
  {<<Prose, Prose>>,
   <<LB, Str("cv_match_rate", "high"), Str("cv_feedback", "ok"), RB>>}
  \cup (IF stage = "cv" THEN {}
        ELSE {<<LB, Num("cv_match_rate", 8), Str("cv_feedback", "ok"), RB>>})
  \cup (IF stage = "summary" THEN {}
        ELSE {<<LB, Str("overall_summary", "ok"), RB>>})

\* C6: when an LLM call returns a text that is not valid JSON or does not
\* match the stage's schema, the failure is fatal and not retried: the
\* validation raises, no further LLM call is made for that stage or a later
\* one, and the job ends failed.
C6_InvalidOutputFatal ==
  /\ [][\A j \in JobIds :
          LET t == task[j]
              u == task'[j]
          IN /\ (/\ t.pc \in ValidatePcs
                 /\ t.response \in C6_InvalidFor(StageOf(t.pc))
                 /\ u # t)
                  => u.pc = "raised" /\ u.failed_at = t.pc /\ u.calls = t.calls
             /\ t.failed_at \in ValidatePcs
                  => u.pc = "raised" /\ u.calls = t.calls]_vars
  /\ [](\A j \in JobIds :
          task[j].failed_at \in ValidatePcs => status[j] \in {"STARTED", "FAILURE"})

C6_Witness ==
  /\ task["j1"].failed_at = "validate_project"
  /\ task["j1"].response = <<Prose, Prose>>
  /\ task["j1"].calls["project"] = 1
  /\ status["j1"] = "FAILURE"

\* C7: the status reported by successive polls of a job is monotonic: once a
\* poll has reported completed or failed, every later poll of that job
\* reports the same status.
C7_PollsMonotonic ==
  [][\A id \in JobIds :
       lastPoll[id].status \in {"completed", "failed"}
         => lastPoll'[id].status = lastPoll[id].status]_vars

C7_Witness ==
  /\ lastPoll["j1"].status = "failed"
  /\ lastPoll["j1"].error = "LLM output schema mismatch"

\* C8: the reported status follows queued -> processing -> (completed |
\* failed): queued from submission until a worker picks the job up,
\* processing while the pipeline runs, completed with the result exactly
\* when the pipeline returned and failed with an error string exactly when
\* it raised.
C8_Lifecycle ==
  /\ [](\A j \in submitted :
          LET t == task[j]
              resp == ResultResponse(status[j], backend[j])
          IN /\ resp.code = 200
             /\ t.pc = "idle" <=> resp.status = "queued"
             /\ t.pc \notin {"idle", "returned", "raised"} => resp.status = "processing"
             /\ resp.status = "processing" => t.pc # "idle"
             /\ resp.status = "completed"
                  => t.pc = "returned" /\ resp.result = t.final_result
                     /\ resp.result # <<>>
             /\ resp.status = "failed"
                  => t.pc = "raised" /\ resp.error = t.exc /\ resp.error # ""
             /\ (status[j] # "STARTED" /\ t.pc = "returned")
                  => resp.status = "completed"
             /\ (status[j] # "STARTED" /\ t.pc = "raised")
                  => resp.status = "failed")
  /\ [][\A j \in JobIds :
          status'[j] # status[j] =>
            \/ status[j] = "PENDING" /\ status'[j] = "STARTED"
            \/ status[j] = "STARTED" /\ status'[j] \in Terminal]_vars

C8_Witness ==
  /\ lastPoll["j1"].status = "processing"
  /\ status["j1"] = "SUCCESS"
  /\ task["j1"].pc = "returned"

\* C9: every job picked up by a worker eventually reaches a terminal status,
\* completed or failed; no job stays in processing forever.
C9_EventuallyTerminal ==
  \A j \in JobIds : (status[j] = "STARTED") ~> (status[j] \in Terminal)

C9_Witness ==
  /\ status["j1"] = "FAILURE"
  /\ task["j1"].calls["cv"] = 1
  /\ task["j1"].calls["project"] = 3
  /\ task["j1"].sleeps = 2

\* C10: every result of a completed job has cv_match_rate in [0,1],
\* project_score in [1,5] and a non-empty overall_summary.
C10_ResultInRange ==
  \A id \in JobIds :
    lastPoll[id].status = "completed" =>
      /\ lastPoll[id].result[1].cv_match_rate \in 0..10
      /\ lastPoll[id].result[1].project_score \in 10..50
      /\ lastPoll[id].result[1].overall_summary # ""


\* the stage whose prompt the context of a category goes into
C11_StageOfSource(source) ==
  IF source \in {"job_description", "cv_rubric"} THEN "cv" ELSE "project"

\* C11: when the vector store is unavailable during a job, the retrieval
\* raises, no LLM call is made for the stage that context was for and the job
\* ends failed; an empty context reaches a prompt only when the store
\* answered the query and no chunk matched.
C11_NoSilentEmptyContext ==
  \A j \in JobIds :
    LET t == task[j]
    IN /\ Len(t.answered) = Len(t.queries)
       /\ Len(t.contexts) <= Len(t.queries)
       /\ \A i \in 1..Len(t.queries) :
            /\ ~t.answered[i] =>
                 /\ i = Len(t.queries)
                 /\ Len(t.contexts) = i - 1
                 /\ t.pc = "raised"
                 /\ t.failed_at \in QueryPcs
                 /\ SourceOf(t.failed_at) = t.queries[i]
                 /\ t.calls[C11_StageOfSource(t.queries[i])] = 0
                 /\ t.final_result = <<>>
                 /\ status[j] \in {"STARTED", "FAILURE"}
            /\ (i <= Len(t.contexts) /\ t.contexts[i] = <<>>) =>
                 /\ t.answered[i]
                 /\ ~\E c \in index : c.source = t.queries[i]
       /\ collection = "None" =>
            t.contexts = <<>> /\ \A st \in Stages : t.calls[st] = 0
       /\ t.calls["cv"] > 0 => Len(t.contexts) >= 2
       /\ t.calls["project"] > 0 => Len(t.contexts) = 4

C11_Witness ==
  /\ Cardinality(index) = 4
  /\ task["j1"].queries = <<"job_description", "cv_rubric", "case_study_brief">>
  /\ task["j1"].answered = <<TRUE, TRUE, FALSE>>
  /\ task["j1"].calls["cv"] = 1
  /\ status["j1"] = "FAILURE"
  /\ backend["j1"].info = "query_rag"

\* C13: a query the store answers on an index that is empty or holds no
\* chunk of the category in the filter returns the empty context "" and no
\* error, and the job goes on to the next statement, the stage's LLM call
\* included, with that context.
C13_NoMatchIsEmptyContext ==
  /\ [](\A j \in JobIds :
          LET t == task[j]
          IN \A i \in 1..Len(t.queries) :
               (t.answered[i] /\ ~\E c \in index : c.source = t.queries[i])
                 => /\ Len(t.contexts) >= i
                    /\ t.contexts[i] = <<>>
                    /\ ~(t.failed_at \in QueryPcs
                         /\ SourceOf(t.failed_at) = t.queries[i]))
  /\ [][\A j \in JobIds :
          Len(task'[j].contexts) > Len(task[j].contexts) =>
            task'[j].pc =
              CASE task[j].pc = "query_job_description" -> "query_cv_rubric"
                [] task[j].pc = "query_cv_rubric" -> "llm_cv"
                [] task[j].pc = "query_case_study_brief" -> "query_project_rubric"
                [] task[j].pc = "query_project_rubric" -> "llm_project"
                [] OTHER -> "none"]_vars

C13_Witness ==
  /\ index = {}
  /\ task["j1"].contexts = <<<<>>, <<>>, <<>>, <<>>>>
  /\ task["j1"].calls["summary"] = 1
  /\ status["j1"] = "SUCCESS"

\* C14: when the text extraction of the CV or of the project report fails,
\* the job ends failed before any index query and any LLM call; both
\* documents are extracted before the first retrieval, so a corrupt project
\* report fails the job without the CV stage running.
C14_ExtractionFirst ==
  \A j \in JobIds :
    LET t == task[j]
    IN /\ t.failed_at \in ParsePcs =>
            /\ t.queries = <<>>
            /\ t.contexts = <<>>
            /\ \A st \in Stages : t.calls[st] = 0
            /\ t.cv_eval = <<>>
            /\ t.exc = "parse_pdf"
            /\ status[j] \in {"STARTED", "FAILURE"}
       /\ (t.queries # <<>> \/ t.failed_at \in QueryPcs
           \/ \E st \in Stages : t.calls[st] > 0)
            => t.texts = <<"parse_cv", "parse_report">>

C14_Witness ==
  /\ task["j1"].failed_at = "parse_report"
  /\ task["j1"].texts = <<"parse_cv">>
  /\ status["j1"] = "FAILURE"
  /\ lastPoll["j1"].status = "failed"


\* C12: when the backing store is unreachable, every operation on the vector
\* index (ingest_document, query_rag, list_ground_truth_documents) fails with
\* an error; none returns a normal result.
C12_UnreachableFails ==
  (op.name # "" /\ ~op.reachable) => op.kind = "raise"

\* C15: ingesting the same text under the same source twice leaves the index
\* as the first ingestion left it, and the index never holds two chunks with
\* the same text (nor with the same id).
C15_IngestIdempotent ==
  /\ [](\A c, d \in index : (c.text = d.text \/ c.id = d.id) => c = d)
  /\ [][(/\ op.name = "ingest_document" /\ op.kind = "return"
         /\ op'.name = "ingest_document" /\ op'.kind = "return"
         /\ Strip(op'.content) = Strip(op.content)
         /\ op'.source_name = op.source_name)
        => (index' = index /\ op'.chunks_added = op.chunks_added)]_vars

C15_Witness ==
  /\ op.name = "ingest_document"
  /\ op.kind = "return"
  /\ op.chunks_added = 1
  /\ op.before = index
  /\ Entry(<<"a", NL, NL, "b">>, op.source_name) \in index
  /\ Cardinality(index) = 5


\* paragraphs joined by the separator "\n\n"
RECURSIVE C17_JoinParagraphs(_)
C17_JoinParagraphs(ps) ==
  IF Len(ps) = 0 THEN <<>>
  ELSE IF Len(ps) = 1 THEN ps[1]
  ELSE ps[1] \o <<NL, NL>> \o C17_JoinParagraphs(Tail(ps))

\* the paragraphs of the chunks, in chunk order
RECURSIVE C17_ParagraphsOf(_)
C17_ParagraphsOf(chunks) ==
  IF chunks = <<>> THEN <<>>
  ELSE Paragraphs(chunks[1].text) \o C17_ParagraphsOf(Tail(chunks))

\* C16: no chunk of split_text_into_chunks is longer than chunk_size unless
\* it is a single paragraph that alone is longer than chunk_size, and a
\* paragraph longer than chunk_size is always a chunk of its own.
C16_ChunkSizeRespected ==
  ck.pc = "returned" =>
    \A k \in 1..Len(ck.chunks) :
      LET ps == Paragraphs(ck.chunks[k].text)
      IN /\ Len(ck.chunks[k].text) > ck.chunk_size =>
              /\ Len(ps) = 1
              /\ ps[1] = ck.chunks[k].text
              /\ \E i \in 1..Len(ck.paragraphs) : ck.paragraphs[i] = ps[1]
         /\ (\E i \in 1..Len(ps) : Len(ps[i]) > ck.chunk_size) => Len(ps) = 1

C16_Witness ==
  /\ ck.pc = "returned"
  /\ Len(ck.paragraphs) = 2
  /\ Len(ck.chunks) = 2
  /\ Len(ck.chunks[2].text) > ck.chunk_size
  /\ Len(ck.chunks[1].text) + 2 <= ck.chunk_size

\* C17: the paragraphs in the chunks, read in chunk order, are the non-blank
\* paragraphs of the text in their original order: none is dropped,
\* duplicated, split across chunks or reordered.
C17_ParagraphsKept ==
  ck.pc = "returned" =>
    /\ C17_ParagraphsOf(ck.chunks) = Paragraphs(ck.text)
    /\ \A k \in 1..Len(ck.chunks) :
         C17_JoinParagraphs(Paragraphs(ck.chunks[k].text)) = ck.chunks[k].text

C17_Witness ==
  /\ ck.pc = "returned"
  /\ ck.paragraphs = << <<"a">>, <<"b">>, <<"a">> >>
  /\ Len(ck.chunks) = 2
  /\ ck.chunks[1].text = <<"a", NL, NL, "b">>
  /\ ck.chunks[2].text = <<"a">>

\* C18: packing is greedy up to chunk_size: the next paragraph is appended
\* to a current chunk whenever the chunk's text plus the 2-character
\* separator plus the paragraph is at most chunk_size long, and the current
\* chunk is emitted and a new one started only when it would be longer.
C18_GreedyUpToChunkSize ==
  [][(ck.pc = "loop" /\ ck'.i = ck.i + 1 /\ ck.current_chunk # <<>>) =>
       LET paragraph == ck.paragraphs[ck'.i]
           fits == Len(Strip(ck.current_chunk)) + 2 + Len(paragraph)
                     <= ck.chunk_size
       IN IF fits
          THEN /\ ck'.chunks = ck.chunks
               /\ Strip(ck'.current_chunk)
                    = Strip(ck.current_chunk) \o <<NL, NL>> \o paragraph
          ELSE /\ ck'.chunks
                    = Append(ck.chunks, Chunk(ck.current_chunk, ck.source_name))
               /\ Strip(ck'.current_chunk) = paragraph]_vars

\* C19: parse_llm_json parses a response made of prose, one schema-valid
\* JSON object and any further text to that first object.
C19_FirstObjectParsed ==
  pj.pc \in {"returned", "raised"} =>
    \A i \in 1..Len(pj.text), j \in 1..Len(pj.text) :
      (/\ i <= j
       /\ \A k \in 1..(i - 1) : pj.text[k] = Prose
       /\ LoadAndValidate(SubSeq(pj.text, i, j), pj.stage).ok)
      => /\ pj.ok
         /\ pj.data = LoadAndValidate(SubSeq(pj.text, i, j), pj.stage).data

\* C20: split_text_into_chunks returns for every text, never emits a chunk
\* with empty text, returns no chunk for empty input and for input of blank
\* lines and whitespace only, and tags every chunk with source_name.
C20_NoEmptyChunks ==
  /\ ck.pc \in {"off", "loop", "returned"}
  /\ ck.pc = "loop" => ck.i <= Len(ck.paragraphs)
  /\ ck.pc = "returned" =>
       /\ \A k \in 1..Len(ck.chunks) :
            /\ ck.chunks[k].text # <<>>
            /\ ck.chunks[k].source = ck.source_name
       /\ (\A i \in 1..Len(ck.text) : ck.text[i] \in Whitespace)
            <=> ck.chunks = <<>>
       /\ ck.chunks
            = split_text_into_chunks(ck.text, ck.source_name, ck.chunk_size)

C20_Witness ==
  /\ ck.pc = "returned"
  /\ Len(ck.text) = MaxTextLen
  /\ ck.text[1] = NL
  /\ ck.text[4] = NL
  /\ \A i \in 1..Len(ck.text) : ck.text[i] \in Whitespace
  /\ ck.chunks = <<>>


\* the categories in the order the pipeline retrieves them
C21_Categories ==
  <<"job_description", "cv_rubric", "case_study_brief", "project_rubric">>

\* C21: the retrievals of a job are, in this order, job_description and
\* cv_rubric before the CV stage's LLM call, case_study_brief and
\* project_rubric after the CV stage and before the project stage's LLM
\* call, each with that one category as filter; the summary stage retrieves
\* nothing, so a job that reaches it has issued exactly four queries.
C21_FixedRetrievals ==
  /\ [](\A j \in JobIds :
          LET t == task[j]
          IN /\ Len(t.queries) <= 4
             /\ \A i \in 1..Len(t.queries) : t.queries[i] = C21_Categories[i]
             /\ t.calls["cv"] > 0 => Len(t.queries) >= 2
             /\ Len(t.queries) > 2 => t.cv_eval # <<>>
             /\ t.calls["project"] > 0 => Len(t.queries) = 4
             /\ (t.calls["summary"] > 0
                 \/ t.pc \in {"llm_summary", "validate_summary", "returned"})
                  => Len(t.queries) = 4)
  /\ [][\A j \in JobIds :
          task'[j].queries # task[j].queries =>
            /\ task[j].pc \in QueryPcs
            /\ Len(task[j].queries) < 4
            /\ task'[j].queries
                 = Append(task[j].queries,
                          C21_Categories[Len(task[j].queries) + 1])
            /\ task'[j].calls = task[j].calls]_vars

C21_Witness ==
  /\ task["j1"].queries = C21_Categories
  /\ task["j1"].answered = <<TRUE, TRUE, TRUE, TRUE>>
  /\ task["j1"].calls["summary"] = 2
  /\ task["j1"].pc = "returned"
  /\ status["j1"] = "SUCCESS"


\* C22: call_gemini_with_retry sleeps only between two attempts: once after
\* every failed attempt that is not the last one, never after a successful
\* call and never after the final failed attempt, so a run of a >= 1
\* attempts has slept a - 1 times when it ends.
C22_SleepsBetweenAttempts ==
  /\ [](/\ r.pc = "loop" => r.sleeps = r.calls
        /\ r.pc \in {"returned", "raised"} =>
             r.sleeps = IF r.calls = 0 THEN 0 ELSE r.calls - 1)
  /\ [][r'.calls = r.calls + 1 =>
          r'.sleeps = r.sleeps
                      + (IF ~r'.last.ok /\ r'.calls < r.retries THEN 1 ELSE 0)]_vars

C22_Witness ==
  /\ r.retries = 4
  /\ r.pc = "raised"
  /\ r.calls = 4
  /\ r.sleeps = 3


\* C23: polling with an id that no submission has returned is answered with
\* 404 not found, never with a job status such as "queued".
C23_UnknownIdNotFound ==
  \A id \in JobIds \ submitted :
    lastPoll[id] # NoPoll => lastPoll[id].code = 404 /\ lastPoll[id].status = ""

\* C25: for every value of retries, 0 included, call_gemini_with_retry
\* returns a string only when a call to the LLM service has succeeded, and
\* the string is the text of that call; otherwise it raises.
C25_ReturnsOnlyOnSuccess ==
  r.pc = "returned" =>
    /\ r.calls >= 1
    /\ r.last.ok
    /\ r.text = r.last.text


\* the stages in the order of their LLM calls
C24_StageOrder == <<"cv", "project", "summary">>

\* C24: a job makes at most `retries` LLM calls per stage and at most
\* 3 x retries in total (9 with the default retries = 3), and a completed
\* job has exactly three successful LLM calls, one per stage in the order
\* CV, project, summary.
C24_BoundedCalls ==
  \A j \in JobIds :
    LET t == task[j]
    IN /\ \A st \in Stages : t.calls[st] <= DefaultRetries
       /\ t.calls["cv"] + t.calls["project"] + t.calls["summary"]
            <= 3 * DefaultRetries
       /\ Len(t.successes) <= 3
       /\ \A i \in 1..Len(t.successes) : t.successes[i] = C24_StageOrder[i]
       /\ \A i \in 1..Len(t.successes) : t.calls[t.successes[i]] >= 1
       /\ (t.pc = "returned" \/ status[j] = "SUCCESS") =>
            t.successes = C24_StageOrder

C24_Witness ==
  /\ status["j1"] = "SUCCESS"
  /\ \A st \in Stages : task["j1"].calls[st] = DefaultRetries
  /\ task["j1"].sleeps = 6
  /\ task["j1"].successes = C24_StageOrder


\* the chunk count GET /documents reports for a source, 0 when the source is
\* not listed
C26_Count(idx, source) ==
  LET listing == ListGroundTruthDocuments("ok", TRUE, idx).listing
  IN IF \E d \in listing : d.source_name = source
     THEN (CHOOSE d \in listing : d.source_name = source).chunk_count
     ELSE 0

\* C26: chunk ids depend on the chunk text only: after a text stored under
\* source A is ingested under source B, the index holds one chunk for it,
\* tagged B, a query filtered to A no longer returns it, and the chunk
\* count reported for A has decreased.
C26_SourceOverwritten ==
  /\ \A c \in index \cup op.before, d \in index \cup op.before :
       c.text = d.text => c.id = d.id
  /\ (op.name = "ingest_document" /\ op.kind = "return" /\ op.chunks_added = 1)
       => LET text == Strip(FileContent(op.file, op.content))
              found(src) == QueryDocuments(index, {src}, DefaultNResults)
          IN \A c \in op.before :
               (c.text = text /\ c.source # op.source_name) =>
                 /\ {d \in index : d.text = text}
                      = {[id |-> c.id, text |-> text,
                          source |-> op.source_name]}
                 /\ \A i \in 1..Len(found(c.source)) : found(c.source)[i] # text
                 /\ \E i \in 1..Len(found(op.source_name)) :
                      found(op.source_name)[i] = text
                 /\ C26_Count(index, c.source)
                      = C26_Count(op.before, c.source) - 1
                 /\ C26_Count(index, op.source_name)
                      = C26_Count(op.before, op.source_name) + 1

C26_Witness ==
  /\ op.name = "ingest_document"
  /\ op.kind = "return"
  /\ op.content = <<"a">>
  /\ op.source_name = "cv_rubric"
  /\ [id |-> 1, text |-> <<"a">>, source |-> "job_description"] \in op.before
  /\ [id |-> 1, text |-> <<"a">>, source |-> "cv_rubric"] \in index
  /\ C26_Count(op.before, "job_description") = 1
  /\ C26_Count(index, "job_description") = 0

\* C27: a failed ingest_document leaves the index unchanged: it raises 400
\* when the file has an unsupported extension or cannot be parsed, 500 when
\* the store is unavailable, and in both cases no chunk is inserted or
\* overwritten.
C27_FailedIngestNoEffect ==
  op.name = "ingest_document" =>
    /\ (op.file \notin {"txt", "pdf"} \/ ~op.reachable) => op.kind = "raise"
    /\ op.kind = "raise" =>
         /\ index = op.before
         /\ op.chunks_added = 0
         /\ op.code = IF op.file \notin {"txt", "pdf"} THEN 400 ELSE 500

C27_Witness ==
  /\ op.name = "ingest_document"
  /\ op.kind = "raise"
  /\ op.code = 500
  /\ op.file = "pdf"
  /\ op.content = <<"a">>
  /\ op.source_name = "cv_rubric"
  /\ ~op.reachable
  /\ collection = "ok"
  /\ Cardinality(index) = 2
  /\ index = op.before


\* C28: running an evaluation job never modifies the vector index: every
\* step of a job, of a completed and of a failed one, leaves the chunks,
\* their texts and their source tags as they were; only a successful
\* ingestion changes the index.
C28_JobsLeaveIndex ==
  [][/\ (task' # task \/ status' # status \/ backend' # backend)
          => index' = index
     /\ index' # index =>
          /\ op'.name = "ingest_document"
          /\ op'.kind = "return"
          /\ op'.before = index
          /\ task' = task]_vars

C28_Witness ==
  /\ status["j1"] = "SUCCESS"
  /\ task["j1"].contexts = << <<"a">>, <<"a">>, <<>>, <<"b">> >>
  /\ op.name = "ingest_document"
  /\ op.kind = "return"
  /\ op.source_name = "cv_rubric"
  /\ index # op.before
  /\ index = {[id |-> 1, text |-> <<"a">>, source |-> "cv_rubric"],
              [id |-> 2, text |-> <<"b">>, source |-> "project_rubric"]}


\* the pipeline's statements that wait for no collaborator: parse_llm_json
C29_Settle(t) ==
  IF t.pc \in ValidatePcs
  THEN ValidateStep(t, parse_llm_json(t.response, StageOf(t.pc)))
  ELSE t

\* the statement of a job running alone that receives the given answer
C29_LocalStep(t, answer) ==
  CASE t.pc \in ParsePcs -> ParseStep(t, answer.ok)
    [] t.pc \in QueryPcs ->
         QueryStep(t, QueryRag(collection, answer.ok, index,
                               {SourceOf(t.pc)}, DefaultNResults), answer.ok)
    [] t.pc \in LlmPcs -> GeminiStep(t, answer)
    [] OTHER -> t

\* the job that ran alone and has received the first n of the answers
RECURSIVE C29_SoloRun(_, _)
C29_SoloRun(answers, n) ==
  IF n = 0 THEN [IdleTask EXCEPT !.pc = PipelineOrder[1]]
  ELSE CHOOSE next \in {C29_LocalStep(t, answers[n]) :
                         t \in {C29_Settle(C29_SoloRun(answers, n - 1))}} : TRUE

\* C29: concurrent jobs do not interfere: under every interleaving of the
\* steps of two jobs, the retrievals, LLM calls, terminal status and result
\* of each job are those of the job running alone with the same answers of
\* its collaborators, and a job started later may complete before one
\* started earlier.
C29_NoInterference ==
  \A j \in JobIds :
    /\ task[j].pc \in {"returned", "raised"} =>
         [task[j] EXCEPT !.started_after = {}]
           = C29_Settle(C29_SoloRun(task[j].heard, Len(task[j].heard)))
    /\ status[j] \in {"SUCCESS", "FAILURE"} =>
         /\ status[j] = FinishState(task[j].pc)
         /\ backend[j] = FinishBackend(task[j])
    /\ status[j] \notin {"SUCCESS", "FAILURE"} => backend[j] = NoBackend

C29_Witness ==
  /\ task["j2"].started_after = {"j1"}
  /\ status["j2"] = "SUCCESS"
  /\ backend["j2"].result # <<>>
  /\ task["j2"].calls["project"] = 2
  /\ status["j1"] = "STARTED"
  /\ task["j1"].pc = "llm_cv"
  /\ task["j1"].calls["cv"] = 1

====
